---------------------------- MODULE Spec2Model ----------------------------
(***************************************************************************)
(* Model of the offchain-storage pallet (frame/offchain-storage/src/lib.rs) *)
(*                                                                         *)
(* The pallet keeps, per data identifier, a UserData record (author and    *)
(* access level) in the on-chain map Data and delegates the payload bytes  *)
(* to an ExternalStorage backend.  The three dispatchables read_data,      *)
(* write_data and delete_data gate a backend call behind check_op_access.  *)
(*                                                                         *)
(* Byte vectors (data ids, payloads) are modelled as small integers; the   *)
(* payload 0 stands for the empty byte vector.  The backend is the DB      *)
(* implementation of the tests module: one file per key.                   *)
(***************************************************************************)
EXTENDS Integers, Sequences, FiniteSets, TLC

(* ------------------------------ bounds --------------------------------- *)
NumIds == 2
NumUsers == 1
NumPayloads == 1

Ids == 1..NumIds
DefaultAccountId == 0
Users == DefaultAccountId..NumUsers
Payloads == 0..NumPayloads

(* ------------------------------ data model ----------------------------- *)
Access == {"Avoid", "Read", "Write"}

DefaultAccess == "Read"

UserData == [author : Users, access : Access]

DefaultUserData == [author |-> DefaultAccountId, access |-> DefaultAccess]

(* access_value with the ranks of Read and Write exchanged. *)
access_value_swapped(ac) ==
    CASE ac = "Avoid" -> 0
      [] ac = "Read"  -> 2
      [] ac = "Write" -> 1

access_value(ac) ==
    CASE ac = "Avoid" -> 0
      [] ac = "Read"  -> 1
      [] ac = "Write" -> 2

(* An origin is either signed by an account or not signed at all. *)
Origins == [signed : {TRUE}, who : Users] \cup {[signed |-> FALSE, who |-> DefaultAccountId]}

signed(who) == [signed |-> TRUE, who |-> who]

ensure_signed(origin) == origin.signed

GetData(bytes) == [event |-> "GetData", data |-> bytes]

(* Faults the environment can inject into one backend call: none, a fault  *)
(* of the call that opens/creates/removes the file, or a fault of the      *)
(* read/write on the opened file.                                          *)
Faults == {"none", "open", "rw"}

(* ------------------------------ state ---------------------------------- *)
VARIABLES
    Data,      \* the storage map data_id => UserData (domain = existing keys)
    backend,   \* the external storage: file name => file content
    events,    \* the events deposited by the most recent dispatch
    written,   \* per data_id, the bytes of the last completed write_data
    last,      \* the most recent dispatch: call, outcome, steps, pre-state
    hist,      \* per data_id, whether a write created it / a delete removed it
    scn        \* the scripted sequence of calls being played, and its stage

vars == <<Data, backend, events, written, last, hist, scn>>

(* ------------------------- storage map Data ---------------------------- *)
(* exists that reports every key as present. *)
exists_always(D, data_id) == TRUE

exists(D, data_id) == data_id \in DOMAIN D

get_data(D, data_id) == IF data_id \in DOMAIN D THEN D[data_id] ELSE DefaultUserData

(* insert that replaces the whole map by the one entry. *)
insert_clobber(D, data_id, data) == [k \in {data_id} |-> data]

(* insert that stores nothing. *)
insert_noop(D, data_id, data) == D

insert(D, data_id, data) ==
    [k \in DOMAIN D \cup {data_id} |-> IF k = data_id THEN data ELSE D[k]]

(* remove that leaves the entry in place. *)
remove_noop(D, data_id) == D

remove(D, data_id) == [k \in DOMAIN D \ {data_id} |-> D[k]]

(* ------------------------- permission check ---------------------------- *)
(* The check without the author clause. *)
check_op_access_no_author(user, data, op) ==
    access_value(data.access) >= access_value(op)

(* The check with a strict comparison of the ranks. *)
check_op_access_strict(user, data, op) ==
    access_value(data.access) > access_value(op) \/ user = data.author

check_op_access(user, data, op) ==
    access_value(data.access) >= access_value(op) \/ user = data.author

(* ------------------------- external storage ---------------------------- *)
(* Each operation yields the new file system and whether the call panicked *)
(* (every step of DB is unwrap()ed).                                       *)
file_put(B, key, bytes) ==
    [f \in DOMAIN B \cup {key} |-> IF f = key THEN bytes ELSE B[f]]

DB_get(B, key, io) ==
    IF key \notin DOMAIN B \/ io # "none"
    THEN [panic |-> TRUE, value |-> 0, backend |-> B]
    ELSE [panic |-> FALSE, value |-> B[key], backend |-> B]

DB_set(B, key, value, io) ==
    CASE io = "open" -> [panic |-> TRUE, backend |-> B]
      [] io = "rw"   -> [panic |-> TRUE, backend |-> file_put(B, key, 0)]
      [] OTHER       -> [panic |-> FALSE, backend |-> file_put(B, key, value)]

(* delete that reports success and leaves the file in place. *)
DB_delete_keeps_file(B, key, io) ==
    IF key \notin DOMAIN B \/ io = "open"
    THEN [panic |-> TRUE, backend |-> B]
    ELSE [panic |-> FALSE, backend |-> B]

DB_delete(B, key, io) ==
    IF key \notin DOMAIN B \/ io = "open"
    THEN [panic |-> TRUE, backend |-> B]
    ELSE [panic |-> FALSE, backend |-> [f \in DOMAIN B \ {key} |-> B[f]]]

get_external_storage(B, data_id, io) == DB_get(B, data_id, io)

set_external_storage(B, data_id, data, io) == DB_set(B, data_id, data, io)

delete_external_storage(B, data_id, io) == DB_delete(B, data_id, io)

(* deposit_event that records the event twice. *)
deposit_event_twice(evs, ev) == Append(Append(evs, ev), ev)

deposit_event(evs, ev) == Append(evs, ev)

(* ------------------------- dispatch bookkeeping ------------------------ *)
Call(op, origin, data_id, value, result, trace) ==
    [op |-> op, origin |-> origin, id |-> data_id, value |-> value,
     result |-> result, trace |-> trace,
     preData |-> Data, preBackend |-> backend]

(* A dispatch that ends before any side effect. *)
Fail(op, origin, data_id, value, result, trace) ==
    /\ last' = Call(op, origin, data_id, value, result, trace)
    /\ events' = <<>>
    /\ UNCHANGED <<Data, backend, written>>

(* ------------------------- dispatchables ------------------------------- *)
(* read_data that writes the record back after the backend call. *)
read_data_reinserts(origin, data_id, io) ==
    IF ~ensure_signed(origin)
    THEN Fail("read_data", origin, data_id, 0, "BadOrigin", <<"ensure_signed">>)
    ELSE IF exists(Data, data_id)
    THEN LET user == origin.who
             data == get_data(Data, data_id)
         IN  IF ~check_op_access(user, data, "Read")
             THEN Fail("read_data", origin, data_id, 0, "PermissionDenied",
                       <<"ensure_signed", "exists", "get_data", "check_op_access">>)
             ELSE LET got == get_external_storage(backend, data_id, io)
                  IN  /\ last' = Call("read_data", origin, data_id, 0,
                                      IF got.panic THEN "Panic" ELSE "Ok",
                                      <<"ensure_signed", "exists", "get_data",
                                        "check_op_access", "Storage::get">>
                                      \o (IF got.panic THEN <<>>
                                          ELSE <<"deposit_event", "insert">>))
                      /\ events' = IF got.panic THEN <<>>
                                   ELSE deposit_event(<<>>, GetData(got.value))
                      /\ backend' = got.backend
                      /\ Data' = IF got.panic THEN Data ELSE insert(Data, data_id, data)
                      /\ UNCHANGED written
    ELSE Fail("read_data", origin, data_id, 0, "NoneData", <<"ensure_signed", "exists">>)

read_data(origin, data_id, io) ==
    IF ~ensure_signed(origin)
    THEN Fail("read_data", origin, data_id, 0, "BadOrigin", <<"ensure_signed">>)
    ELSE IF exists(Data, data_id)
    THEN LET user == origin.who
             data == get_data(Data, data_id)
         IN  IF ~check_op_access(user, data, "Read")
             THEN Fail("read_data", origin, data_id, 0, "PermissionDenied",
                       <<"ensure_signed", "exists", "get_data", "check_op_access">>)
             ELSE LET got == get_external_storage(backend, data_id, io)
                  IN  IF got.panic
                      THEN /\ last' = Call("read_data", origin, data_id, 0, "Panic",
                                           <<"ensure_signed", "exists", "get_data",
                                             "check_op_access", "Storage::get">>)
                           /\ events' = <<>>
                           /\ backend' = got.backend
                           /\ UNCHANGED <<Data, written>>
                      ELSE /\ last' = Call("read_data", origin, data_id, 0, "Ok",
                                           <<"ensure_signed", "exists", "get_data",
                                             "check_op_access", "Storage::get",
                                             "deposit_event">>)
                           /\ events' = deposit_event(<<>>, GetData(got.value))
                           /\ backend' = got.backend
                           /\ UNCHANGED <<Data, written>>
    ELSE Fail("read_data", origin, data_id, 0, "NoneData", <<"ensure_signed", "exists">>)

(* write_data that refuses identifiers without a record. *)
write_data_require_record(origin, data_id, value, io) ==
    IF ~ensure_signed(origin)
    THEN Fail("write_data", origin, data_id, value, "BadOrigin", <<"ensure_signed">>)
    ELSE IF ~exists(Data, data_id)
    THEN Fail("write_data", origin, data_id, value, "NoneData", <<"ensure_signed", "exists">>)
    ELSE LET user == origin.who
             data == get_data(Data, data_id)
         IN  IF ~check_op_access(user, data, "Read")
             THEN Fail("write_data", origin, data_id, value, "PermissionDenied",
                       <<"ensure_signed", "exists", "get_data", "check_op_access">>)
             ELSE LET set == set_external_storage(backend, data_id, value, io)
                  IN  /\ last' = Call("write_data", origin, data_id, value,
                                      IF set.panic THEN "Panic" ELSE "Ok",
                                      <<"ensure_signed", "exists", "get_data",
                                        "check_op_access", "Storage::set">>
                                      \o (IF set.panic THEN <<>> ELSE <<"insert">>))
                      /\ events' = <<>>
                      /\ backend' = set.backend
                      /\ Data' = IF set.panic THEN Data ELSE insert(Data, data_id, data)
                      /\ written' = IF set.panic THEN written
                                    ELSE insert(written, data_id, value)

(* write_data that stores the caller as the author of the record. *)
write_data_sets_author(origin, data_id, value, io) ==
    IF ~ensure_signed(origin)
    THEN Fail("write_data", origin, data_id, value, "BadOrigin", <<"ensure_signed">>)
    ELSE LET user == origin.who
             data == get_data(Data, data_id)
         IN  IF ~check_op_access(user, data, "Read")
             THEN Fail("write_data", origin, data_id, value, "PermissionDenied",
                       <<"ensure_signed", "get_data", "check_op_access">>)
             ELSE LET set == set_external_storage(backend, data_id, value, io)
                  IN  /\ last' = Call("write_data", origin, data_id, value,
                                      IF set.panic THEN "Panic" ELSE "Ok",
                                      <<"ensure_signed", "get_data",
                                        "check_op_access", "Storage::set">>
                                      \o (IF set.panic THEN <<>> ELSE <<"insert">>))
                      /\ events' = <<>>
                      /\ backend' = set.backend
                      /\ Data' = IF set.panic THEN Data
                                 ELSE insert(Data, data_id, [data EXCEPT !.author = user])
                      /\ written' = IF set.panic THEN written
                                    ELSE insert(written, data_id, value)

(* write_data that calls the backend before the permission check. *)
write_data_set_first(origin, data_id, value, io) ==
    IF ~ensure_signed(origin)
    THEN Fail("write_data", origin, data_id, value, "BadOrigin", <<"ensure_signed">>)
    ELSE LET user == origin.who
             data == get_data(Data, data_id)
             set == set_external_storage(backend, data_id, value, io)
             denied == ~check_op_access(user, data, "Read")
         IN  /\ last' = Call("write_data", origin, data_id, value,
                             IF set.panic THEN "Panic"
                             ELSE IF denied THEN "PermissionDenied" ELSE "Ok",
                             <<"ensure_signed", "get_data", "Storage::set">>
                             \o (IF set.panic THEN <<>>
                                 ELSE IF denied THEN <<"check_op_access">>
                                 ELSE <<"check_op_access", "insert">>))
             /\ events' = <<>>
             /\ backend' = set.backend
             /\ Data' = IF set.panic \/ denied THEN Data ELSE insert(Data, data_id, data)
             /\ written' = IF set.panic \/ denied THEN written
                           ELSE insert(written, data_id, value)

(* write_data that inserts the record before the backend call. *)
write_data_insert_first(origin, data_id, value, io) ==
    IF ~ensure_signed(origin)
    THEN Fail("write_data", origin, data_id, value, "BadOrigin", <<"ensure_signed">>)
    ELSE LET user == origin.who
             data == get_data(Data, data_id)
         IN  IF ~check_op_access(user, data, "Read")
             THEN Fail("write_data", origin, data_id, value, "PermissionDenied",
                       <<"ensure_signed", "get_data", "check_op_access">>)
             ELSE LET set == set_external_storage(backend, data_id, value, io)
                  IN  /\ last' = Call("write_data", origin, data_id, value,
                                      IF set.panic THEN "Panic" ELSE "Ok",
                                      <<"ensure_signed", "get_data", "check_op_access",
                                        "insert", "Storage::set">>)
                      /\ events' = <<>>
                      /\ backend' = set.backend
                      /\ Data' = insert(Data, data_id, data)
                      /\ written' = IF set.panic THEN written
                                    ELSE insert(written, data_id, value)

(* write_data that turns a fault of the backend into Error::ExternalError. *)
write_data_external_error(origin, data_id, value, io) ==
    IF ~ensure_signed(origin)
    THEN Fail("write_data", origin, data_id, value, "BadOrigin", <<"ensure_signed">>)
    ELSE LET user == origin.who
             data == get_data(Data, data_id)
         IN  IF ~check_op_access(user, data, "Read")
             THEN Fail("write_data", origin, data_id, value, "PermissionDenied",
                       <<"ensure_signed", "get_data", "check_op_access">>)
             ELSE LET set == set_external_storage(backend, data_id, value, io)
                  IN  /\ last' = Call("write_data", origin, data_id, value,
                                      IF set.panic THEN "ExternalError" ELSE "Ok",
                                      <<"ensure_signed", "get_data",
                                        "check_op_access", "Storage::set">>
                                      \o (IF set.panic THEN <<>> ELSE <<"insert">>))
                      /\ events' = <<>>
                      /\ backend' = set.backend
                      /\ Data' = IF set.panic THEN Data ELSE insert(Data, data_id, data)
                      /\ written' = IF set.panic THEN written
                                    ELSE insert(written, data_id, value)

write_data(origin, data_id, value, io) ==
    IF ~ensure_signed(origin)
    THEN Fail("write_data", origin, data_id, value, "BadOrigin", <<"ensure_signed">>)
    ELSE LET user == origin.who
             data == get_data(Data, data_id)
         IN  IF ~check_op_access(user, data, "Read")
             THEN Fail("write_data", origin, data_id, value, "PermissionDenied",
                       <<"ensure_signed", "get_data", "check_op_access">>)
             ELSE LET set == set_external_storage(backend, data_id, value, io)
                  IN  IF set.panic
                      THEN /\ last' = Call("write_data", origin, data_id, value, "Panic",
                                           <<"ensure_signed", "get_data",
                                             "check_op_access", "Storage::set">>)
                           /\ events' = <<>>
                           /\ backend' = set.backend
                           /\ UNCHANGED <<Data, written>>
                      ELSE /\ last' = Call("write_data", origin, data_id, value, "Ok",
                                           <<"ensure_signed", "get_data",
                                             "check_op_access", "Storage::set",
                                             "insert">>)
                           /\ events' = <<>>
                           /\ backend' = set.backend
                           /\ Data' = insert(Data, data_id, data)
                           /\ written' = insert(written, data_id, value)

(* delete_data that removes the record before the backend call. *)
delete_data_remove_first(origin, data_id, io) ==
    IF ~ensure_signed(origin)
    THEN Fail("delete_data", origin, data_id, 0, "BadOrigin", <<"ensure_signed">>)
    ELSE IF exists(Data, data_id)
    THEN LET user == origin.who
             data == get_data(Data, data_id)
         IN  IF ~check_op_access(user, data, "Read")
             THEN Fail("delete_data", origin, data_id, 0, "PermissionDenied",
                       <<"ensure_signed", "exists", "get_data", "check_op_access">>)
             ELSE LET del == delete_external_storage(backend, data_id, io)
                  IN  /\ last' = Call("delete_data", origin, data_id, 0,
                                      IF del.panic THEN "Panic" ELSE "Ok",
                                      <<"ensure_signed", "exists", "get_data",
                                        "check_op_access", "remove", "Storage::delete">>)
                      /\ events' = <<>>
                      /\ backend' = del.backend
                      /\ Data' = remove(Data, data_id)
                      /\ written' = IF del.panic THEN written ELSE remove(written, data_id)
    ELSE Fail("delete_data", origin, data_id, 0, "NoneData", <<"ensure_signed", "exists">>)

delete_data(origin, data_id, io) ==
    IF ~ensure_signed(origin)
    THEN Fail("delete_data", origin, data_id, 0, "BadOrigin", <<"ensure_signed">>)
    ELSE IF exists(Data, data_id)
    THEN LET user == origin.who
             data == get_data(Data, data_id)
         IN  IF ~check_op_access(user, data, "Read")
             THEN Fail("delete_data", origin, data_id, 0, "PermissionDenied",
                       <<"ensure_signed", "exists", "get_data", "check_op_access">>)
             ELSE LET del == delete_external_storage(backend, data_id, io)
                  IN  IF del.panic
                      THEN /\ last' = Call("delete_data", origin, data_id, 0, "Panic",
                                           <<"ensure_signed", "exists", "get_data",
                                             "check_op_access", "Storage::delete">>)
                           /\ events' = <<>>
                           /\ backend' = del.backend
                           /\ UNCHANGED <<Data, written>>
                      ELSE /\ last' = Call("delete_data", origin, data_id, 0, "Ok",
                                           <<"ensure_signed", "exists", "get_data",
                                             "check_op_access", "Storage::delete",
                                             "remove">>)
                           /\ events' = <<>>
                           /\ backend' = del.backend
                           /\ Data' = remove(Data, data_id)
                           /\ written' = remove(written, data_id)
    ELSE Fail("delete_data", origin, data_id, 0, "NoneData", <<"ensure_signed", "exists">>)

(* ------------------------- specifications ------------------------------ *)
NoCall ==
    [op |-> "none", origin |-> [signed |-> FALSE, who |-> DefaultAccountId],
     id |-> 1, value |-> 0, result |-> "none", trace |-> <<>>,
     preData |-> <<>>, preBackend |-> <<>>]

(* No scripted sequence is being played. *)
NoScenario == [stage |-> 0, A |-> DefaultAccountId, B |-> DefaultAccountId, k |-> 1, v |-> 0]

(* The creation history of the identifiers after the dispatch c: a write   *)
(* that returned Ok on an identifier without a record created it, a delete *)
(* that returned Ok removed it.                                            *)
Track(h, c) ==
    IF c.op = "write_data" /\ c.result = "Ok" /\ c.id \notin DOMAIN c.preData
    THEN [h EXCEPT ![c.id] = "created"]
    ELSE IF c.op = "delete_data" /\ c.result = "Ok"
    THEN [h EXCEPT ![c.id] = "deleted"]
    ELSE h

(* The state new_test_ext() builds: no record, no file. *)
Init ==
    /\ Data = <<>>
    /\ backend = <<>>
    /\ events = <<>>
    /\ written = <<>>
    /\ last = NoCall
    /\ hist = [data_id \in Ids |-> "never"]
    /\ scn = NoScenario

(* A store provisioned out of band: no record, or one record of any author *)
(* and access under any identifier, with its file in the backend.          *)
InitAny ==
    /\ \/ Data = <<>> /\ backend = <<>>
       \/ \E data_id \in Ids, data \in UserData, bytes \in Payloads :
             /\ Data = insert(<<>>, data_id, data)
             /\ backend = file_put(<<>>, data_id, bytes)
    /\ events = <<>>
    /\ written = backend
    /\ last = [NoCall EXCEPT !.preData = Data, !.preBackend = backend]
    /\ hist = [data_id \in Ids |-> "never"]
    /\ scn = NoScenario

(* The empty state in which the scripted sequence of tests::do_external_storage *)
(* is about to be played by two distinct accounts A and B.                 *)
InitScenario ==
    /\ Data = <<>>
    /\ backend = <<>>
    /\ events = <<>>
    /\ written = <<>>
    /\ last = NoCall
    /\ hist = [data_id \in Ids |-> "never"]
    /\ scn \in {c \in [stage : {0}, A : Users, B : Users, k : Ids, v : Payloads] : c.A # c.B}

Next ==
    \/ \E origin \in Origins, data_id \in Ids :
          read_data(origin, data_id, "none") /\ UNCHANGED <<hist, scn>>
    \/ \E origin \in Origins, data_id \in Ids, value \in Payloads :
          write_data(origin, data_id, value, "none") /\ UNCHANGED <<hist, scn>>
    \/ \E origin \in Origins, data_id \in Ids :
          delete_data(origin, data_id, "none") /\ UNCHANGED <<hist, scn>>

NextFault ==
    \/ \E origin \in Origins, data_id \in Ids, io \in Faults :
          read_data(origin, data_id, io) /\ UNCHANGED <<hist, scn>>
    \/ \E origin \in Origins, data_id \in Ids, value \in Payloads, io \in Faults :
          write_data(origin, data_id, value, io) /\ UNCHANGED <<hist, scn>>
    \/ \E origin \in Origins, data_id \in Ids, io \in Faults :
          delete_data(origin, data_id, io) /\ UNCHANGED <<hist, scn>>

(* The calls of every caller with the creation history kept. *)
NextHist ==
    \/ \E origin \in Origins, data_id \in Ids :
          read_data(origin, data_id, "none") /\ hist' = Track(hist, last') /\ UNCHANGED scn
    \/ \E origin \in Origins, data_id \in Ids, value \in Payloads :
          write_data(origin, data_id, value, "none") /\ hist' = Track(hist, last')
             /\ UNCHANGED scn
    \/ \E origin \in Origins, data_id \in Ids :
          delete_data(origin, data_id, "none") /\ hist' = Track(hist, last') /\ UNCHANGED scn

(* The four calls of tests::do_external_storage (followed by the read that  *)
(* closes the scenario), in order, on the identifier scn.k; calls on other *)
(* identifiers by any origin may come in between.                          *)
NextScenario ==
    \/ /\ scn.stage = 0
       /\ write_data(signed(scn.A), scn.k, scn.v, "none")
       /\ scn' = [scn EXCEPT !.stage = 1]
       /\ UNCHANGED hist
    \/ /\ scn.stage \in {1, 3}
       /\ read_data(signed(scn.B), scn.k, "none")
       /\ scn' = [scn EXCEPT !.stage = scn.stage + 1]
       /\ UNCHANGED hist
    \/ /\ scn.stage = 2
       /\ delete_data(signed(scn.A), scn.k, "none")
       /\ scn' = [scn EXCEPT !.stage = 3]
       /\ UNCHANGED hist
    \/ \E origin \in Origins, data_id \in Ids \ {scn.k}, value \in Payloads :
          /\ \/ read_data(origin, data_id, "none")
             \/ write_data(origin, data_id, value, "none")
             \/ delete_data(origin, data_id, "none")
          /\ UNCHANGED <<hist, scn>>

Spec == Init /\ [][Next]_vars

SpecAny == InitAny /\ [][Next]_vars

SpecFault == Init /\ [][NextFault]_vars

SpecHist == Init /\ [][NextHist]_vars

SpecScenario == InitScenario /\ [][NextScenario]_vars

(* ------------------------- vocabulary of the properties ---------------- *)
Ops == {"read_data", "write_data", "delete_data"}

BackendCalls == {"Storage::get", "Storage::set", "Storage::delete"}

(* The most recent dispatch was made by a signed caller. *)
ByCaller == last.op \in Ops /\ last.origin.signed

Caller == last.origin.who

(* The target identifier had a record when the dispatch started. *)
HadRecord == last.id \in DOMAIN last.preData

PreRecord == last.preData[last.id]

ByAuthor == ByCaller /\ HadRecord /\ Caller = PreRecord.author

ByNonAuthor == ByCaller /\ HadRecord /\ Caller # PreRecord.author

NoBackendCall == \A i \in 1..Len(last.trace) : last.trace[i] \notin BackendCalls

MetadataUnchanged == Data = last.preData

BackendUnchanged == backend = last.preBackend

(* ------------------------------ C1 ------------------------------------- *)
(* C1: for every record present in the metadata store, whatever its access *)
(* level, read_data, write_data and delete_data called by the record's     *)
(* author succeed; none returns PermissionDenied.                          *)
C1_AuthorAlwaysAllowed == ByAuthor => last.result = "Ok"

(* The author of an Avoid record, not the default identity, has deleted it. *)
C1_Witness ==
    /\ ByAuthor
    /\ last.op = "delete_data"
    /\ PreRecord.access = "Avoid"
    /\ Caller # DefaultAccountId
    /\ last.result = "Ok"

(* ------------------------------ C2 ------------------------------------- *)
(* C2: for every existing record and every caller that is not its author:  *)
(* with access Avoid, read_data, write_data and delete_data all fail with  *)
(* PermissionDenied; with access Read or Write, read_data succeeds.        *)
C2_NonAuthorGating ==
    ByNonAuthor =>
        /\ PreRecord.access = "Avoid" => last.result = "PermissionDenied"
        /\ (PreRecord.access \in {"Read", "Write"} /\ last.op = "read_data")
              => last.result = "Ok"

(* A non-author has been refused a write on an Avoid record. *)
C2_Witness ==
    /\ ByNonAuthor
    /\ last.op = "write_data"
    /\ PreRecord.access = "Avoid"
    /\ last.result = "PermissionDenied"

(* ------------------------------ C3 ------------------------------------- *)
(* C3: on a record whose access level is Read, write_data and delete_data  *)
(* called by a non-author fail with PermissionDenied and change neither    *)
(* the record nor the payload.                                             *)
C3_ReadRecordOnlyAuthorWrites ==
    (ByNonAuthor /\ PreRecord.access = "Read" /\ last.op \in {"write_data", "delete_data"})
        => /\ last.result = "PermissionDenied"
           /\ MetadataUnchanged
           /\ BackendUnchanged

(* ------------------------------ C4 ------------------------------------- *)
(* C4: for every identifier with no metadata record and every caller,      *)
(* read_data and delete_data fail with NoneData, make no backend call,     *)
(* emit no notification and leave the metadata store unchanged.            *)
C4_NoRecordReadDelete ==
    (ByCaller /\ ~HadRecord /\ last.op \in {"read_data", "delete_data"})
        => /\ last.result = "NoneData"
           /\ NoBackendCall
           /\ BackendUnchanged
           /\ events = <<>>
           /\ MetadataUnchanged

(* A delete on an identifier without a record was refused while another    *)
(* identifier had a record.                                                *)
C4_Witness ==
    /\ ByCaller
    /\ ~HadRecord
    /\ last.op = "delete_data"
    /\ last.preData # <<>>
    /\ last.result = "NoneData"

(* ------------------------------ C5 ------------------------------------- *)
(* C5 as stated: for every identifier with no metadata record and every    *)
(* caller, write_data fails with NoneData and leaves the metadata store    *)
(* unchanged.                                                              *)
C5_WriteRequiresRecord ==
    (ByCaller /\ ~HadRecord /\ last.op = "write_data")
        => /\ last.result = "NoneData"
           /\ MetadataUnchanged

(* C5 amended: for every identifier with no metadata record and every      *)
(* caller, write_data succeeds, stores the payload and creates a record    *)
(* with access Read for the identifier; the records of the other           *)
(* identifiers are unchanged.                                              *)
C5_WriteCreatesRecord ==
    (ByCaller /\ ~HadRecord /\ last.op = "write_data")
        => /\ last.result = "Ok"
           /\ DOMAIN Data = DOMAIN last.preData \cup {last.id}
           /\ Data[last.id].access = "Read"
           /\ \A k \in DOMAIN last.preData : Data[k] = last.preData[k]
           /\ last.id \in DOMAIN backend
           /\ backend[last.id] = last.value

(* A write has created the record of an identifier next to another record. *)
C5_Witness ==
    /\ ByCaller
    /\ ~HadRecord
    /\ last.op = "write_data"
    /\ last.preData # <<>>
    /\ last.id \in DOMAIN Data

(* ------------------------------ C6 ------------------------------------- *)
(* C6: whenever a write_data call by caller c creates a record for an      *)
(* identifier that had none, the stored record's author equals c.          *)
C6_CreatorIsAuthor ==
    (ByCaller /\ ~HadRecord /\ last.op = "write_data" /\ last.result = "Ok")
        => /\ last.id \in DOMAIN Data
           /\ Data[last.id].author = Caller

(* ------------------------------ C7 ------------------------------------- *)
(* C7: a successful write_data on an identifier that already has a record  *)
(* leaves the record's author and access as they were; only the backend    *)
(* payload of that identifier changes.                                     *)
C7_WriteKeepsRecord ==
    (ByCaller /\ HadRecord /\ last.op = "write_data" /\ last.result = "Ok")
        => /\ Data = last.preData
           /\ DOMAIN backend = DOMAIN last.preBackend
           /\ backend[last.id] = last.value
           /\ \A k \in DOMAIN backend \ {last.id} : backend[k] = last.preBackend[k]
           /\ events = <<>>

(* A non-author has overwritten the payload of a Write record owned by a   *)
(* non-default identity.                                                   *)
C7_Witness ==
    /\ ByNonAuthor
    /\ last.op = "write_data"
    /\ last.result = "Ok"
    /\ PreRecord.author # DefaultAccountId
    /\ PreRecord.access = "Write"
    /\ last.preBackend[last.id] # last.value

(* ------------------------------ C8 ------------------------------------- *)
(* C8: after a successful delete_data the identifier has no metadata       *)
(* record and no backend payload, and a read_data or delete_data on it     *)
(* that follows immediately, by any caller, fails with NoneData.           *)
C8_DeleteRemovesBoth ==
    [][/\ (last'.op = "delete_data" /\ last'.result = "Ok")
             => /\ last'.id \notin DOMAIN Data'
                /\ last'.id \notin DOMAIN backend'
       /\ (/\ last.op = "delete_data" /\ last.result = "Ok"
           /\ last'.op \in {"read_data", "delete_data"}
           /\ last'.origin.signed
           /\ last'.id = last.id)
             => last'.result = "NoneData"]_vars

(* A delete has succeeded and removed the record and the file. *)
C8_Witness ==
    /\ ByCaller
    /\ last.op = "delete_data"
    /\ last.result = "Ok"
    /\ last.id \in DOMAIN last.preData
    /\ last.id \in DOMAIN last.preBackend
    /\ last.id \notin DOMAIN Data

(* ------------------------------ C9 ------------------------------------- *)
(* C9: every successful read_data emits exactly one GetData notification   *)
(* whose payload is what the backend get returns for the identifier, the   *)
(* bytes last written to it; read_data changes neither the metadata store  *)
(* nor the backend payload.                                                *)
C9_ReadEmitsPayload ==
    (ByCaller /\ last.op = "read_data" /\ last.result = "Ok")
        => /\ Len(events) = 1
           /\ events[1] = GetData(last.preBackend[last.id])
           /\ events[1].data = written[last.id]
           /\ MetadataUnchanged
           /\ BackendUnchanged

(* A non-author has read a non-empty payload. *)
C9_Witness ==
    /\ ByNonAuthor
    /\ last.op = "read_data"
    /\ last.result = "Ok"
    /\ events = <<GetData(1)>>

(* ------------------------------ C10 ------------------------------------ *)
(* C10: every operation that returns an error performs no metadata         *)
(* mutation, no backend call and emits no notification; notifications are  *)
(* emitted only by successful read_data.                                   *)
C10_ErrorsHaveNoEffect ==
    /\ last.result \in {"PermissionDenied", "NoneData", "BadOrigin"}
          => /\ MetadataUnchanged
             /\ NoBackendCall
             /\ BackendUnchanged
             /\ events = <<>>
    /\ events # <<>> => (last.op = "read_data" /\ last.result = "Ok")

(* A write by a non-author on an Avoid record was refused. *)
C10_Witness ==
    /\ ByNonAuthor
    /\ last.op = "write_data"
    /\ last.result = "PermissionDenied"
    /\ last.value \notin {last.preBackend[last.id]}

(* ------------------------------ C11 ------------------------------------ *)
(* C11: starting from an empty store, for any identifier k, payload v and  *)
(* distinct callers A and B: write_data(A, k, v) succeeds; then            *)
(* read_data(B, k) succeeds and its notification carries v; then           *)
(* delete_data(A, k) succeeds; then read_data(B, k) fails with NoneData.   *)
C11_Scenario ==
    (last.op \in Ops /\ last.id = scn.k) =>
        /\ scn.stage = 1 => last.result = "Ok"
        /\ scn.stage = 2 => (last.result = "Ok" /\ events = <<GetData(scn.v)>>)
        /\ scn.stage = 3 => last.result = "Ok"
        /\ scn.stage = 4 => last.result = "NoneData"

(* The scenario was played to its end with a writer that is not the        *)
(* default identity and a non-empty payload.                               *)
C11_Witness ==
    /\ scn.stage = 4
    /\ scn.A # DefaultAccountId
    /\ scn.v # 0
    /\ last.op = "read_data"
    /\ last.id = scn.k
    /\ last.origin = signed(scn.B)
    /\ last.result = "NoneData"

(* ------------------------------ C12 ------------------------------------ *)
(* C12 as stated: in every reachable state and for every identifier, a     *)
(* metadata record exists if and only if the identifier has at least once  *)
(* been the target of a write that created it.                             *)
C12_ExistsIffEverCreated ==
    \A data_id \in Ids : data_id \in DOMAIN Data <=> hist[data_id] # "never"

(* C12 amended: a metadata record exists for an identifier if and only if  *)
(* the identifier has been the target of a write that created it and no    *)
(* delete_data on it has succeeded since that write.                       *)
C12_ExistsIffCreatedNotDeleted ==
    \A data_id \in Ids : data_id \in DOMAIN Data <=> hist[data_id] = "created"

(* One identifier was created and deleted, another one is still there.     *)
C12_Witness ==
    \E j, k \in Ids :
        /\ hist[j] = "deleted" /\ j \notin DOMAIN Data
        /\ hist[k] = "created" /\ k \in DOMAIN Data

(* ------------------------------ C13 ------------------------------------ *)
(* C13: within every call the steps occur in the order metadata lookup and *)
(* permission check, then the backend call, then (write and delete) the    *)
(* metadata mutation; the backend call never happens before the check and  *)
(* the metadata mutation never happens before the backend call.            *)
Lookups == {"exists", "get_data"}

Mutations == {"insert", "remove"}

Steps == 1..Len(last.trace)

C13_StepOrder ==
    \A i, j \in Steps :
        /\ (last.trace[i] \in Lookups /\ last.trace[j] = "check_op_access") => i < j
        /\ (last.trace[i] = "check_op_access" /\ last.trace[j] \in BackendCalls) => i < j
        /\ (last.trace[i] \in BackendCalls /\ last.trace[j] \in Mutations) => i < j
        /\ last.trace[j] \in BackendCalls
              => \E c \in Steps : last.trace[c] = "check_op_access"
        /\ last.trace[j] \in Mutations => \E b \in Steps : last.trace[b] \in BackendCalls

(* A non-author's delete of a Write record ran all its steps. *)
C13_Witness ==
    /\ ByNonAuthor
    /\ last.op = "delete_data"
    /\ PreRecord.access = "Write"
    /\ last.result = "Ok"
    /\ \E i, j \in Steps : last.trace[i] = "Storage::delete" /\ last.trace[j] = "remove"

(* ------------------------------ C14 ------------------------------------ *)
(* C14: every successful operation performs at most one backend call and   *)
(* at most one metadata mutation: read_data one get and no mutation,       *)
(* write_data one set and one insert, delete_data one delete and one       *)
(* remove.                                                                 *)
Count(S) == Cardinality({i \in Steps : last.trace[i] \in S})

C14_OneCallOneMutation ==
    (ByCaller /\ last.result = "Ok") =>
        /\ Count(BackendCalls) = 1
        /\ Count(Mutations) <= 1
        /\ last.op = "read_data"
              => /\ Count({"Storage::get"}) = 1
                 /\ Count(Mutations) = 0
                 /\ MetadataUnchanged
        /\ last.op = "write_data"
              => /\ Count({"Storage::set"}) = 1
                 /\ Count({"insert"}) = 1
                 /\ Count(Mutations) = 1
        /\ last.op = "delete_data"
              => /\ Count({"Storage::delete"}) = 1
                 /\ Count({"remove"}) = 1
                 /\ Count(Mutations) = 1

(* The author of an Avoid record has read it. *)
C14_Witness ==
    /\ ByAuthor
    /\ last.op = "read_data"
    /\ PreRecord.access = "Avoid"
    /\ last.result = "Ok"
    /\ Count({"Storage::get"}) = 1

(* ------------------------------ C15 ------------------------------------ *)
(* C15: for every caller, record and requested level, check_op_access      *)
(* returns true if and only if rank(record.access) >= rank(requested) or   *)
(* caller = record.author, where rank maps Avoid, Read, Write to 0, 1, 2;  *)
(* and all three operations call it with requested level Read.             *)
Rank(ac) == IF ac = "Avoid" THEN 0 ELSE IF ac = "Read" THEN 1 ELSE 2

Allow(caller, record, requested) ==
    Rank(record.access) >= Rank(requested) \/ caller = record.author

(* The record the permission check of the most recent dispatch was given. *)
CheckedRecord == IF HadRecord THEN PreRecord ELSE DefaultUserData

C16_OnlyThreeOutcomes ==
    ByCaller => last.result \in {"Ok", "PermissionDenied", "NoneData"}

(* C16 amended: no call by an authenticated caller returns ExternalError;  *)
(* a call that returns, returns success, PermissionDenied or NoneData, and *)
(* a call whose backend call faults does not return at all: the fault      *)
(* ends it as a panic inside the backend call.                             *)
C16_NoExternalError ==
    ByCaller =>
        /\ last.result # "ExternalError"
        /\ \/ last.result \in {"Ok", "PermissionDenied", "NoneData"}
           \/ /\ last.result = "Panic"
              /\ last.trace # <<>>
              /\ last.trace[Len(last.trace)] \in BackendCalls

(* A write by a signed caller whose backend call faulted. *)
C16_Witness ==
    /\ ByCaller
    /\ last.op = "write_data"
    /\ last.result = "Panic"

C18_RecordIffPayload ==
    \A data_id \in Ids : data_id \in DOMAIN Data <=> data_id \in DOMAIN backend

(* A delete removed one identifier while another keeps record and payload. *)
C18_Witness ==
    /\ last.op = "delete_data"
    /\ last.result = "Ok"
    /\ last.id \notin DOMAIN Data
    /\ last.id \notin DOMAIN backend
    /\ \E k \in Ids : k \in DOMAIN Data /\ k \in DOMAIN backend

(* ------------------------------ C19 ------------------------------------ *)
(* C19: every read_data, write_data or delete_data call on identifier k,   *)
(* successful or not, leaves the metadata record and the backend payload   *)
(* of every identifier other than k unchanged.                             *)
C19_OtherIdsUntouched ==
    last.op \in Ops =>
        \A k \in Ids \ {last.id} :
            /\ k \in DOMAIN Data <=> k \in DOMAIN last.preData
            /\ k \in DOMAIN Data => Data[k] = last.preData[k]
            /\ k \in DOMAIN backend <=> k \in DOMAIN last.preBackend
            /\ k \in DOMAIN backend => backend[k] = last.preBackend[k]

(* A write created a record while another identifier held a record that is *)
(* not the default one.                                                    *)
C19_Witness ==
    /\ ByCaller
    /\ last.op = "write_data"
    /\ last.result = "Ok"
    /\ ~HadRecord
    /\ \E k \in Ids \ {last.id} :
          /\ k \in DOMAIN Data
          /\ Data[k] # DefaultUserData
          /\ k \in DOMAIN backend

(* ------------------------------ C20 ------------------------------------ *)
(* C20: if the backend call of a write_data or delete_data faults, the     *)
(* metadata store is as it was before the call; metadata is mutated only   *)
(* after the backend set/delete has returned.                              *)
C20_FaultKeepsMetadata ==
    last.op \in {"write_data", "delete_data"} =>
        /\ last.result = "Panic" => MetadataUnchanged
        /\ ~MetadataUnchanged => last.result = "Ok"
        /\ \A j \in Steps :
              last.trace[j] \in Mutations
                 => /\ last.result = "Ok"
                    /\ \E i \in 1..(j - 1) : last.trace[i] \in {"Storage::set", "Storage::delete"}

(* A write faulted after the file was created: the backend changed, the    *)
(* metadata did not.                                                       *)
C20_Witness ==
    /\ ByCaller
    /\ last.op = "write_data"
    /\ last.result = "Panic"
    /\ ~BackendUnchanged
    /\ MetadataUnchanged

=============================================================================
